---- MODULE Spec2Model ----
(***************************************************************************)
(* himawaripy: the projection engine (himawaripy/mapper.py, class Mapper)  *)
(* and the command line pipeline that drives it (himawaripy/__main__.py:   *)
(* main, thread_main, download_chunk).                                     *)
(*                                                                         *)
(* Floating point values are carried in fixed point, in thousandths        *)
(* (Milli); a value is a record [nan, v] so that IEEE NaN is a value of    *)
(* its own.  Angles are carried in 1/10000 of a degree (DegUnit), the      *)
(* math.radians conversion being folded into Sin and Cos.  Strings are     *)
(* sequences of one-character strings.                                     *)
(***************************************************************************)
EXTENDS Integers, Sequences, FiniteSets, TLC

\* ------------------------------------------------------------------ bounds
\* longest --center string enumerated
MaxLen == 5
\* largest width and height requested from the engine
MaxDim == 3
\* largest batch of points handed to the round trip
MaxBatch == 2
\* most tiles a pool is followed through; a larger box stops at p.map
MaxTiles == 2
\* largest --deadline, in minutes
MaxDeadline == 1

\* --------------------------------------------------------------- constants
WIDTH == 550
HEIGHT == 550
him_width == 550
him_height == 550
earth_rad_km == 6371
Milli == 10 * 100
DegUnit == 100 * 100
\* 1 - 40.0 / 4400, in thousandths
earth_rad_im == (Milli * (4400 - 40)) \div 4400
\* math.radians(0.03) and math.radians(143.5), in DegUnit
sat_lat == (3 * DegUnit) \div 100
sat_long == (1435 * DegUnit) \div 10
\* math.radians(37.5665) and math.radians(126.9780), in DegUnit
kor_lat == 375665
kor_long == 1269780
Levels == {4, 8, 16, 20}

\* ----------------------------------------------------------- float values
MkNum(v) == [nan |-> FALSE, v |-> v]
NaN == [nan |-> TRUE, v |-> 0]

\* division rounding toward zero, as float division followed by truncation
Quot(a, b) ==
  IF b = 0 THEN 0
  ELSE IF (a < 0) = (b < 0)
       THEN (IF a < 0 THEN -a ELSE a) \div (IF b < 0 THEN -b ELSE b)
       ELSE -((IF a < 0 THEN -a ELSE a) \div (IF b < 0 THEN -b ELSE b))

NAdd(a, b) == IF a.nan \/ b.nan THEN NaN ELSE MkNum(a.v + b.v)
NSub(a, b) == IF a.nan \/ b.nan THEN NaN ELSE MkNum(a.v - b.v)
NMul(a, b) == IF a.nan \/ b.nan THEN NaN ELSE MkNum(Quot(a.v * b.v, Milli))
NNeg(a) == IF a.nan THEN NaN ELSE MkNum(-a.v)

RECURSIVE Bisect(_, _, _)
Bisect(n, lo, hi) ==
  IF lo >= hi THEN lo
  ELSE LET mid == (lo + hi + 1) \div 2
       IN  IF mid * mid <= n THEN Bisect(n, mid, hi) ELSE Bisect(n, lo, mid - 1)

\* the integer square root of 0 <= n < 2000 * 2000
ISqrt(n) == Bisect(n, 0, 2 * Milli)

\* np.sqrt: the square root of a negative number is NaN (with a warning)
NSqrt(a) == IF a.nan \/ a.v < 0 THEN NaN ELSE MkNum(ISqrt(a.v * Milli))

\* math.sin of whole degrees 0..90, in thousandths
SinTab ==
  << 0, 17, 35, 52, 70, 87, 105, 122, 139, 156, 174, 191, 208, 225, 242, 259, 276,
     292, 309, 326, 342, 358, 375, 391, 407, 423, 438, 454, 469, 485, 500, 515, 530,
     545, 559, 574, 588, 602, 616, 629, 643, 656, 669, 682, 695, 707, 719, 731, 743,
     755, 766, 777, 788, 799, 809, 819, 829, 839, 848, 857, 866, 875, 883, 891, 899,
     906, 914, 921, 927, 934, 940, 946, 951, 956, 961, 966, 970, 974, 978, 982, 985,
     988, 990, 993, 995, 996, 998, 999, 999, 1000, 1000 >>

\* first quadrant sine of an angle 0..90 degrees given in DegUnit
SinQ(r) ==
  LET d == r \div DegUnit
      f == r % DegUnit
      lo == SinTab[d + 1]
      hi == SinTab[IF d + 2 > 91 THEN 91 ELSE d + 2]
  IN  lo + ((hi - lo) * f) \div DegUnit

Sin(a) ==
  LET r == a % (360 * DegUnit)
  IN  IF r <= 90 * DegUnit THEN SinQ(r)
      ELSE IF r <= 180 * DegUnit THEN SinQ(180 * DegUnit - r)
      ELSE IF r <= 270 * DegUnit THEN -SinQ(r - 180 * DegUnit)
      ELSE -SinQ(360 * DegUnit - r)

Cos(a) == Sin(90 * DegUnit - a)

\* ----------------------------------------------------------------- strings
Digits == {"0", "4"}
Chars == Digits \cup {",", " ", "x"}
Strings(n) == UNION {[1..k -> Chars] : k \in 0..n}

RECURSIVE SplitFrom(_, _, _, _)
SplitFrom(s, i, cur, acc) ==
  IF i > Len(s) THEN Append(acc, cur)
  ELSE IF s[i] = "," THEN SplitFrom(s, i + 1, <<>>, Append(acc, cur))
  ELSE SplitFrom(s, i + 1, Append(cur, s[i]), acc)

\* str.split(","): one more field than there are commas
Split(s) == SplitFrom(s, 1, <<>>, <<>>)

RECURSIVE LStrip(_)
LStrip(s) == IF Len(s) > 0 /\ s[1] = " " THEN LStrip(Tail(s)) ELSE s

RECURSIVE RStrip(_)
RStrip(s) ==
  IF Len(s) > 0 /\ s[Len(s)] = " " THEN RStrip(SubSeq(s, 1, Len(s) - 1)) ELSE s

\* str.strip()
Strip(s) == RStrip(LStrip(s))

\* float(field) succeeds: over Chars, a non-empty run of digits
IsFloat(f) == Len(f) > 0 /\ \A i \in 1..Len(f) : f[i] \in Digits

DigitVal(c) == IF c = "4" THEN 4 ELSE 0

RECURSIVE FloatVal(_)
\* float(field), a whole number of degrees
FloatVal(f) ==
  IF Len(f) = 0 THEN 0
  ELSE 10 * FloatVal(SubSeq(f, 1, Len(f) - 1)) + DigitVal(f[Len(f)])

\* ------------------------------------------------------- Mapper.__init__
NoMapper ==
  [state |-> "none", error |-> "", level |-> 0, offset |-> <<0, 0>>,
   km_per_pixel |-> 0, ctr_lat |-> 0, ctr_long |-> 0]

MapperRaised(err) == [NoMapper EXCEPT !.state = "raised", !.error = err]

MapperBuilt(level, offset, scale, lat, long) ==
  [state |-> "ok", error |-> "", level |-> level, offset |-> offset,
   km_per_pixel |-> scale, ctr_lat |-> lat, ctr_long |-> long]

\* the list comprehension of line 34 raises ValueError on the first field that
\* float() rejects; center[1] of line 36 raises IndexError on a single field
ParseCenterMutNoCount(level, offset, scale, center) ==
  LET fields == Split(center)
      nums == [i \in 1..Len(fields) |-> Strip(fields[i])]
  IN  IF \E i \in 1..Len(nums) : ~IsFloat(nums[i]) THEN MapperRaised("ValueError")
      ELSE MapperBuilt(level, offset, scale,
                       FloatVal(nums[1]) * DegUnit,
                       FloatVal(nums[IF Len(nums) < 2 THEN 1 ELSE 2]) * DegUnit)

ParseCenter(level, offset, scale, center) ==
  LET fields == Split(center)
      nums == [i \in 1..Len(fields) |-> Strip(fields[i])]
  IN  IF \E i \in 1..Len(nums) : ~IsFloat(nums[i]) THEN MapperRaised("ValueError")
      ELSE IF Len(nums) < 2 THEN MapperRaised("IndexError")
      ELSE MapperBuilt(level, offset, scale,
                       FloatVal(nums[1]) * DegUnit, FloatVal(nums[2]) * DegUnit)

MapperInit(level, offset, scale, center) ==
  IF center = <<>>
  THEN MapperBuilt(level, offset, scale, kor_lat - 3 * DegUnit, kor_long)
  ELSE ParseCenter(level, offset, scale, center)

\* ------------------------------------------------------------ numpy arrays
\* A two-dimensional array is a record [rows, cols, at], at[i][j] its entry; a
\* one-dimensional array is a record [len, at].  A batch of N points is held
\* as arrays of one row.
Size(a) == a.rows * a.cols

Zip2(Op(_, _), a, b) ==
  [rows |-> a.rows, cols |-> a.cols,
   at |-> [i \in 1..a.rows |-> [j \in 1..a.cols |-> Op(a.at[i][j], b.at[i][j])]]]

Map1(Op(_), a) ==
  [rows |-> a.rows, cols |-> a.cols,
   at |-> [i \in 1..a.rows |-> [j \in 1..a.cols |-> Op(a.at[i][j])]]]

\* a mesh built with indexing="ij": the shape follows the first argument
MeshgridMutIJ(a, b) ==
  [first |-> [rows |-> a.len, cols |-> b.len,
              at |-> [i \in 1..a.len |-> [j \in 1..b.len |-> a.at[i]]]],
   second |-> [rows |-> a.len, cols |-> b.len,
               at |-> [i \in 1..a.len |-> [j \in 1..b.len |-> b.at[j]]]]]

\* np.meshgrid(a, b): both results have len(b) rows and len(a) columns
Meshgrid(a, b) ==
  [first |-> [rows |-> b.len, cols |-> a.len,
              at |-> [i \in 1..b.len |-> [j \in 1..a.len |-> a.at[j]]]],
   second |-> [rows |-> b.len, cols |-> a.len,
               at |-> [i \in 1..b.len |-> [j \in 1..a.len |-> b.at[i]]]]]

\* a.reshape(-1): the rows one after another
Flatten(a) ==
  [len |-> Size(a),
   at |-> [k \in 1..Size(a) |-> a.at[((k - 1) \div a.cols) + 1][((k - 1) % a.cols) + 1]]]

\* flat.reshape(rows, cols)
Reshape(flat, rows, cols) ==
  [rows |-> rows, cols |-> cols,
   at |-> [i \in 1..rows |-> [j \in 1..cols |-> flat.at[(i - 1) * cols + j]]]]

\* m.dot(v) for a 3x3 matrix of thousandths and three flat rows
Dot3(m, v) ==
  [r \in 1..3 |->
     [len |-> v[1].len,
      at |-> [k \in 1..v[1].len |->
                NAdd(NAdd(NMul(MkNum(m[r][1]), v[1].at[k]),
                          NMul(MkNum(m[r][2]), v[2].at[k])),
                     NMul(MkNum(m[r][3]), v[3].at[k]))]]]

\* ------------------------------------------------- Mapper.map_to_cartesian
MapScale(e) ==
  Quot(Quot(e.km_per_pixel * Milli, earth_rad_km) * Milli, 2 * Cos(e.ctr_lat))

\* (np.arange(n) - n * 0.5) * scale
LinSpace(n, scale) ==
  [len |-> n,
   at |-> [k \in 1..n |->
             MkNum(Quot(((k - 1) * Milli - n * (Milli \div 2)) * scale, Milli))]]

CtrOffset(e) == 2 * (Milli - Sin(e.ctr_lat))

MapGrid(e, width, height) ==
  LET y_lin == LinSpace(width, MapScale(e))
      x_lin0 == LinSpace(height, MapScale(e))
      x_lin == [len |-> height,
                at |-> [k \in 1..height |-> NAdd(x_lin0.at[k], MkNum(CtrOffset(e)))]]
      mg == Meshgrid(y_lin, x_lin)
  IN  [y_map |-> mg.first, x_map |-> mg.second]

SumOfSq(g) == Zip2(NAdd, Zip2(NMul, g.x_map, g.x_map), Zip2(NMul, g.y_map, g.y_map))

\* np.sqrt(1.0 - sum_of_sq * 0.25)
\* (the argument is kept exact, so that its sign is the sign the code sees)
Factor(s) ==
  IF s.nan \/ s.v > 4 * Milli THEN NaN
  ELSE MkNum(ISqrt((4 * Milli - s.v) * (Milli \div 4)))

\* 1.0 - sum_of_sq * 0.5
ZStd(s) == NSub(MkNum(Milli), NMul(s, MkNum(Milli \div 2)))

\* np.stack([x_std, y_std, z_std], axis=0)
MapToCartesian(e, width, height) ==
  LET g == MapGrid(e, width, height)
      sum_of_sq == SumOfSq(g)
      factor == Map1(Factor, sum_of_sq)
  IN  << Zip2(NMul, g.x_map, factor), Zip2(NMul, g.y_map, factor), Map1(ZStd, sum_of_sq) >>

\* ----------------------------------------------- Mapper.cartesian_to_earth
ThetaPrime == 90 * DegUnit - sat_lat
PhiPrime(longitude) == sat_long - longitude

StdToPrime(longitude) ==
  LET sin_th_p == Sin(ThetaPrime)
      cos_th_p == Cos(ThetaPrime)
      sin_ph_p == Sin(PhiPrime(longitude))
      cos_ph_p == Cos(PhiPrime(longitude))
  IN  << << Quot(sin_th_p * cos_ph_p, Milli), Quot(sin_th_p * sin_ph_p, Milli), cos_th_p >>,
         << -sin_ph_p, cos_ph_p, 0 >>,
         << -Quot(cos_th_p * cos_ph_p, Milli), -Quot(cos_th_p * sin_ph_p, Milli), sin_th_p >> >>

ImSize(e) == him_width * e.level

\* (c * earth_rad_im + 1.0) * float(imsize) * 0.5 - off * him_width, in
\* thousandths of a pixel
ToPixel(e, c, off) ==
  IF c.nan THEN NaN
  ELSE MkNum(Quot((Quot(c.v * earth_rad_im, Milli) + Milli) * ImSize(e), 2)
             - off * him_width * Milli)

CartesianToEarth(e, std_coord, longitude) ==
  LET rows == std_coord[1].rows
      cols == std_coord[1].cols
      flat == [c \in 1..3 |-> Flatten(std_coord[c])]
      prime_flat == Dot3(StdToPrime(longitude), flat)
      y_prime == Reshape(prime_flat[2], rows, cols)
      z_prime == Reshape(prime_flat[3], rows, cols)
      XEarth(c) == ToPixel(e, c, e.offset[1])
      YEarth(c) == ToPixel(e, NNeg(c), e.offset[2])
  IN  << Map1(XEarth, y_prime), Map1(YEarth, z_prime) >>

\* ----------------------------------------------- Mapper.get_map_transforms
\* astype(np.float32) keeps NaN and, at this precision, every value
GetMapTransforms(e, width, height) ==
  LET std_coord == MapToCartesian(e, width, height)
      earth_coord == CartesianToEarth(e, std_coord, e.ctr_long)
  IN  [x |-> earth_coord[1], y |-> earth_coord[2]]

\* int(width) of a value in thousandths
IntOf(m) == Quot(m, Milli)

\* ------------------------------------------------------- Mapper.transform
\* cv2.remap returns one pixel per entry of the maps and takes every entry as
\* a sample location; Image.fromarray gives size (columns, rows).  `sampled`
\* is the set of destination pixels whose entry was handed to cv2.remap,
\* `unmapped` the set the engine marked as having no source (it keeps no mask).
Transform(e, src, width, height) ==
  LET m == GetMapTransforms(e, IntOf(width), IntOf(height))
  IN  [size |-> << m.x.cols, m.x.rows >>,
       map_to_x |-> m.x,
       map_to_y |-> m.y,
       sampled |-> (1..m.x.rows) \X (1..m.x.cols),
       unmapped |-> {}]

\* ----------------------------------------------- Mapper.earth_to_cartesian
PrimeToStd(longitude) ==
  LET sin_th_p == Sin(ThetaPrime)
      cos_th_p == Cos(ThetaPrime)
      sin_ph_p == Sin(PhiPrime(longitude))
      cos_ph_p == Cos(PhiPrime(longitude))
  IN  << << Quot(sin_th_p * cos_ph_p, Milli), -sin_ph_p, -Quot(cos_th_p * cos_ph_p, Milli) >>,
         << Quot(sin_th_p * sin_ph_p, Milli), cos_ph_p, -Quot(cos_th_p * sin_ph_p, Milli) >>,
         << cos_th_p, 0, sin_th_p >> >>

\* x_earth += xoff * self.him_width: in place, on the caller's array
AddOffset(e, c, off) == NAdd(c, MkNum(off * him_width * Milli))

\* ( 2.0 * x_earth / float(imsize) - 1.0) / self.earth_rad_im
FromPixel(e, c) ==
  IF c.nan THEN NaN
  ELSE MkNum(Quot((Quot(2 * c.v, ImSize(e)) - Milli) * Milli, earth_rad_im))

\* 1.0 - y_prime * y_prime - z_prime * z_prime
SqrtArg(y, z) == NSub(NSub(MkNum(Milli), NMul(y, y)), NMul(z, z))

\* The outcome of earth_to_cartesian: `raised` names the exception ("" when it
\* returns), `value` the three rows returned, `earth_after` the caller's array
\* as the call leaves it.  math.sqrt takes one number: an array of any other
\* size is a TypeError, a negative number a ValueError.  np.array of a float
\* and two arrays is a ragged list: an object array on a numpy that still
\* builds one (legacy), a ValueError on the others.
EarthToCartesian(e, earth_coord, longitude, legacy) ==
  LET XAdd(c) == AddOffset(e, c, e.offset[1])
      YAdd(c) == AddOffset(e, c, e.offset[2])
      x_earth == Map1(XAdd, earth_coord[1])
      y_earth == Map1(YAdd, earth_coord[2])
      YPrime(c) == FromPixel(e, c)
      ZPrime(c) == NNeg(FromPixel(e, c))
      y_prime == Map1(YPrime, x_earth)
      z_prime == Map1(ZPrime, y_earth)
      after == << x_earth, y_earth >>
      arg == SqrtArg(y_prime.at[1][1], z_prime.at[1][1])
      x_prime == [rows |-> 1, cols |-> 1, at |-> << << NSqrt(arg) >> >>]
      flat == << Flatten(x_prime), Flatten(y_prime), Flatten(z_prime) >>
      std_flat == Dot3(PrimeToStd(longitude), flat)
  IN  IF Size(y_prime) # 1
      THEN [raised |-> "TypeError", value |-> << >>, earth_after |-> after]
      ELSE IF ~arg.nan /\ arg.v < 0
      THEN [raised |-> "ValueError", value |-> << >>, earth_after |-> after]
      ELSE IF ~legacy
      THEN [raised |-> "ValueError", value |-> << >>, earth_after |-> after]
      ELSE [raised |-> "", earth_after |-> after,
            value |-> [c \in 1..3 |-> Reshape(std_flat[c], 1, 1)]]

\* ------------------------------------------------------------------- state
VARIABLES
  ctor,       \* the arguments Mapper.__init__ was called with
  mapper,     \* the Mapper instance (thread_main's `mapper`)
  call,       \* the engine call in progress and what it computed
  args,       \* the parsed command line, as main rewrites it
  mpc,        \* main: "main", "join", "check", "exit" ("off": no process)
  exit,       \* what the process ended with: a sys.exit message, "0", or ""
  clock,      \* seconds since main_thread.start()
  timedOut,   \* join() returned on its timeout with the thread still alive
  tpc,        \* thread_main: its position, or how it ended
  terr,       \* the exception that ended thread_main
  png,        \* the composite image
  workers,    \* the pool: one download_chunk task per tile
  arrival,    \* the tasks in the order they completed
  counter,    \* the shared progress counter
  res,        \* what p.map returned
  out,        \* the image saved to the output file
  bg          \* set_background was called

engineVars == << ctor, mapper, call >>
pipeVars == << args, mpc, exit, clock, timedOut, tpc, terr, png, workers, arrival,
               counter, res, out, bg >>
vars == << ctor, mapper, call, args, mpc, exit, clock, timedOut, tpc, terr, png,
           workers, arrival, counter, res, out, bg >>

NoCtor == [given |-> FALSE, level |-> 0, offset |-> <<0, 0>>, scale |-> 0, center |-> <<>>]
NoCall == [op |-> "none"]
NoArgs ==
  [level |-> 0, img_type |-> "", tiles |-> <<>>, box |-> <<0, 0, 0, 0>>,
   ratio_in |-> <<>>, screen_ratio |-> <<0, 1>>, deadline |-> 0]
NoImage == [size |-> <<0, 0>>, cells |-> <<>>, pastes |-> <<>>]
NoOutput ==
  [saved |-> FALSE, path |-> "", size |-> <<0, 0>>, width |-> 0, height |-> 0,
   screen_width |-> 0, screen_height |-> 0, border |-> FALSE]

\* no process is running: the engine is exercised on its own
PipelineOff ==
  /\ args = NoArgs
  /\ mpc = "off"
  /\ exit = ""
  /\ clock = 0
  /\ timedOut = FALSE
  /\ tpc = "idle"
  /\ terr = ""
  /\ png = NoImage
  /\ workers = <<>>
  /\ arrival = <<>>
  /\ counter = 0
  /\ res = <<>>
  /\ out = NoOutput
  /\ bg = FALSE

\* ------------------------------------------------- the engine, on its own
\* the (level, offset) pairs the engine is built with: the first tile box of
\* level 4 and the defaults of Mapper.__init__
EngineFrames == {<<4, <<0, 0>>>>, <<20, <<5, 2>>>>}
\* kilometres per pixel: --scale, and the scale the engine is exercised with
Scales == {-1000, 0, 1000}
EngineScales == {1000}
\* reference longitudes of the round trip, in DegUnit
Longitudes == {0, sat_long}
\* points of the unit sphere, standard frame, in thousandths
StdPoints == {<<-600, 800, 0>>, <<0, 600, 800>>}

Batch(ps) ==
  [c \in 1..3 |->
     [rows |-> 1, cols |-> Len(ps), at |-> << [k \in 1..Len(ps) |-> MkNum(ps[k][c])] >>]]

\* the prime-frame x of every point of the batch is >= 0
NearHemisphere(ps, longitude) ==
  LET b == Batch(ps)
      prime == Dot3(StdToPrime(longitude), [c \in 1..3 |-> Flatten(b[c])])
  IN  \A k \in 1..Len(ps) : prime[1].at[k].v >= 0

\* The instance a method leaves behind.  Outside __init__ no statement of the
\* class assigns an attribute of self: `scale /= ...` and `x_lin += ...`
\* (lines 136, 142) act on locals, `x_earth -= ...` (lines 110-111) on a fresh
\* array, and `x_earth += ...` (lines 53-54) on the argument, not on self.
MapToCartesianSelfMutInPlace(e) == [e EXCEPT !.km_per_pixel = MapScale(e)]
MapToCartesianSelf(e) == e
CartesianToEarthSelf(e) == e
EarthToCartesianSelf(e) == e
GetMapTransformsSelf(e) == CartesianToEarthSelf(MapToCartesianSelf(e))
TransformSelf(e) == GetMapTransformsSelf(e)

InitMapper ==
  /\ ctor = NoCtor
  /\ mapper = NoMapper
  /\ call = NoCall
  /\ PipelineOff

\* Mapper(level, offset, scale, center): the arguments are locals of __init__
NewMapper ==
  /\ mpc = "off"
  /\ mapper.state = "none"
  /\ call.op = "none"
  /\ \E f \in EngineFrames, scale \in EngineScales, center \in Strings(MaxLen) :
       /\ ctor' = [given |-> TRUE, level |-> f[1], offset |-> f[2], scale |-> scale,
                   center |-> center]
       /\ mapper' = MapperInit(f[1], f[2], scale, center)
  /\ call' = [op |-> "__init__"]
  /\ UNCHANGED pipeVars

CallGetMapTransforms ==
  /\ mpc = "off"
  /\ mapper.state = "ok"
  /\ call.op = "none"
  /\ \E width \in 1..MaxDim, height \in 1..MaxDim :
       call' = [op |-> "get_map_transforms", width |-> width, height |-> height,
                grid |-> MapGrid(mapper, width, height),
                maps |-> GetMapTransforms(mapper, width, height),
                self |-> mapper]
  /\ mapper' = GetMapTransformsSelf(mapper)
  /\ UNCHANGED << ctor, pipeVars >>

\* a second get_map_transforms(width, height) on the same instance, made while
\* the result of the first is still held by its caller
CallGetMapTransformsAgain ==
  /\ mpc = "off"
  /\ mapper.state = "ok"
  /\ call.op = "get_map_transforms"
  /\ call' = [op |-> "get_map_transforms_again", width |-> call.width,
              height |-> call.height, maps |-> call.maps,
              again |-> GetMapTransforms(mapper, call.width, call.height),
              self |-> call.self]
  /\ mapper' = GetMapTransformsSelf(mapper)
  /\ UNCHANGED << ctor, pipeVars >>

CallTransform ==
  /\ mpc = "off"
  /\ mapper.state = "ok"
  /\ call.op = "none"
  /\ \E width \in 1..MaxDim, height \in 1..MaxDim :
       call' = [op |-> "transform", width |-> width, height |-> height,
                grid |-> MapGrid(mapper, width, height),
                image |-> Transform(mapper, NoImage, width * Milli, height * Milli),
                self |-> mapper]
  /\ mapper' = TransformSelf(mapper)
  /\ UNCHANGED << ctor, pipeVars >>

CallRoundTrip ==
  /\ mpc = "off"
  /\ mapper.state = "ok"
  /\ call.op = "none"
  /\ \E n \in 1..MaxBatch, longitude \in Longitudes, legacy \in BOOLEAN :
       \E ps \in [1..n -> StdPoints] :
         /\ NearHemisphere(ps, longitude)
         /\ LET earth == CartesianToEarth(mapper, Batch(ps), longitude)
            IN  call' = [op |-> "round_trip", p |-> Batch(ps), n |-> n,
                         longitude |-> longitude, earth |-> earth,
                         back |-> EarthToCartesian(mapper, earth, longitude, legacy),
                         self |-> mapper]
  /\ mapper' = EarthToCartesianSelf(CartesianToEarthSelf(mapper))
  /\ UNCHANGED << ctor, pipeVars >>

Return ==
  /\ mpc = "off"
  /\ call.op # "none"
  /\ call' = NoCall
  /\ ctor' = IF call.op = "__init__" THEN NoCtor ELSE ctor
  /\ UNCHANGED << mapper, pipeVars >>

NextMapper ==
  \/ NewMapper
  \/ CallGetMapTransforms
  \/ CallGetMapTransformsAgain
  \/ CallTransform
  \/ CallRoundTrip
  \/ Return

SpecMapper == InitMapper /\ [][NextMapper]_vars

\* ---------------------------------------------------------- main (299-338)
\* --tiles as the list of its comma separated fields
TileInts == {"-1", "0", "1"}
TileLists ==
  [1..4 -> TileInts]
    \cup {<<>>, <<"0", "0", "1">>, <<"0", "0", "1", "0", "20">>, <<"0", "x", "1", "0">>,
          <<"0", "", "0", "1", "0">>, <<"0", "0", "20", "0">>, <<"0", "0", "0", "20">>,
          <<"0", "0", "2", "0">>}
\* --screen-ratio as the list of its colon separated numbers
RatioLists == {<<>>, <<2, 1>>, <<1, 2>>, <<2>>}
ImgTypes == {"vis", "ir"}

IsInt(t) == t \in {"-1", "0", "1", "2", "20"}
IntOfTok(t) == CASE t = "-1" -> -1 [] t = "0" -> 0 [] t = "1" -> 1 [] t = "2" -> 2 [] t = "20" -> 20 [] OTHER -> 0

\* [t for t in ... if t.strip() != ""]
NonEmpty(toks) == SelectSeq(toks, LAMBDA t : t # "")

\* lines 301-303
EffectiveLevel(img_type, level) == IF img_type = "ir" /\ level > 8 THEN 8 ELSE level

\* the upper bound of line 310 taken inclusive
BoxRejectedMutUpper(tiles, level) ==
  \/ Len(tiles) < 4
  \/ tiles[3] < tiles[1] \/ tiles[4] < tiles[2]
  \/ tiles[3] > level \/ tiles[4] > level \/ tiles[1] < 0 \/ tiles[2] < 0

\* lines 306-311: the three sys.exit("Wrong box coordinates!")
BoxRejected(tiles, level) ==
  \/ Len(tiles) < 4
  \/ tiles[3] < tiles[1] \/ tiles[4] < tiles[2]
  \/ tiles[3] >= level \/ tiles[4] >= level \/ tiles[1] < 0 \/ tiles[2] < 0

\* lines 317-320
RatioRejected(sr) == Len(sr) < 2 \/ sr[1] <= 0 \/ sr[2] <= 0

\* What main does up to main_thread.start(): the message it exits with (or the
\* exception that ends it), "" when the thread is started, and args as it
\* leaves them.  args.tiles becomes the tuple held in box, args.screen_ratio
\* the quotient held as the pair (sr[0], sr[1]); (0, 1) is a ratio of 0.
MainSetup(a) ==
  LET level == EffectiveLevel(a.img_type, a.level)
      a1 == [a EXCEPT !.level = level]
      toks == NonEmpty(a.tiles)
      tiles == [i \in 1..Len(toks) |-> IntOfTok(toks[i])]
      a2 == [a1 EXCEPT !.tiles = <<>>,
                       !.box = IF a.tiles = <<>>
                               THEN <<0, 0, level - 1, level - 1>>
                               ELSE SubSeq(tiles, 1, 4)]
      a3 == [a2 EXCEPT !.ratio_in = <<>>,
                       !.screen_ratio = IF a.ratio_in = <<>> THEN <<0, 1>> ELSE a.ratio_in]
  IN  IF ~(a.deadline >= 0)
      THEN [exit |-> "DEADLINE has to be greater than (or equal to if you want to disable) zero!",
            args |-> a]
      ELSE IF a.tiles # <<>> /\ \E i \in 1..Len(toks) : ~IsInt(toks[i])
      THEN [exit |-> "ValueError", args |-> a1]
      ELSE IF a.tiles # <<>> /\ BoxRejected(tiles, level)
      THEN [exit |-> "Wrong box coordinates!", args |-> a1]
      ELSE IF a.ratio_in # <<>> /\ RatioRejected(a.ratio_in)
      THEN [exit |-> "Wrong screen ratio!", args |-> a2]
      ELSE [exit |-> "", args |-> a3]

\* threading.Thread.is_alive()
ThreadAlive == tpc \notin {"idle", "done", "raised", "exited"}
\* the daemon thread and its pool run only while the process does
Running == mpc \in {"join", "check"}

\* a deadline of 0 handed to join as a timeout of 0 seconds
JoinTimeoutMutZero(deadline) == deadline * 60

\* main_thread.join(args.deadline * 60 if args.deadline else None): -1 is None
JoinTimeout(deadline) == IF deadline # 0 THEN deadline * 60 ELSE -1

Init ==
  /\ ctor = NoCtor
  /\ mapper = NoMapper
  /\ call = NoCall
  /\ \E level \in Levels, img_type \in ImgTypes, tiles \in TileLists,
        ratio \in RatioLists, deadline \in -1..MaxDeadline :
       args = [level |-> level, img_type |-> img_type, tiles |-> tiles,
               box |-> <<0, 0, 0, 0>>, ratio_in |-> ratio, screen_ratio |-> <<0, 1>>,
               deadline |-> deadline]
  /\ mpc = "main"
  /\ exit = ""
  /\ clock = 0
  /\ timedOut = FALSE
  /\ tpc = "idle"
  /\ terr = ""
  /\ png = NoImage
  /\ workers = <<>>
  /\ arrival = <<>>
  /\ counter = 0
  /\ res = <<>>
  /\ out = NoOutput
  /\ bg = FALSE

\* lines 300-331
Main ==
  /\ mpc = "main"
  /\ LET r == MainSetup(args)
     IN  /\ args' = r.args
         /\ exit' = r.exit
         /\ mpc' = IF r.exit = "" THEN "join" ELSE "exit"
         /\ tpc' = IF r.exit = "" THEN "fetch" ELSE tpc
  /\ UNCHANGED << engineVars, clock, timedOut, terr, png, workers, arrival, counter, res,
                  out, bg >>

\* a minute passes
Tick ==
  /\ Running
  /\ clock < 60 * MaxDeadline
  /\ clock' = clock + 60
  /\ UNCHANGED << engineVars, args, mpc, exit, timedOut, tpc, terr, png, workers, arrival,
                  counter, res, out, bg >>

\* line 332: join returns when the thread has ended or the timeout has passed
JoinReturn ==
  /\ mpc = "join"
  /\ \/ ~ThreadAlive
     \/ JoinTimeout(args.deadline) >= 0 /\ clock >= JoinTimeout(args.deadline)
  /\ mpc' = "check"
  /\ timedOut' = ThreadAlive
  /\ UNCHANGED << engineVars, args, exit, clock, tpc, terr, png, workers, arrival, counter,
                  res, out, bg >>

\* lines 334-338
ExitStatus(deadline, alive) == IF deadline # 0 /\ alive THEN "Timeout!" ELSE "0"

\* The process ends and its memory with it: the composite, the pool and its
\* results are gone; the saved file, the wallpaper and what was fetched stay.
MainExit ==
  /\ mpc = "check"
  /\ exit' = ExitStatus(args.deadline, ThreadAlive)
  /\ mpc' = "exit"
  /\ png' = NoImage
  /\ workers' = <<>>
  /\ arrival' = <<>>
  /\ res' = <<>>
  /\ UNCHANGED << engineVars, args, clock, timedOut, tpc, terr, counter, out, bg >>

\* -------------------------------------------------- thread_main (182-296)
\* --scale and --center as thread_main reads them
PipeCenters == {<<"4", ",", "0">>, <<"4">>, <<"x", ",", "0">>}
\* --screen-width and --screen-height
ScreenWidths == {0, 2}
ScreenHeights == {0, 3}

BoxW(box) == box[3] - box[1] + 1
BoxH(box) == box[4] - box[2] + 1

\* the Mapper is built for every scale, zero included
NeedsMapperMutAlways(scale) == TRUE

\* line 203
NeedsMapper(scale) == scale # 0

Blank == <<-1, -1>>

\* the rectangles of the tile grid inside an image of w by h tiles
GridBoxes(w, h) ==
  {<<WIDTH * cx, HEIGHT * cy, WIDTH * (cx + 1), HEIGHT * (cy + 1)>> :
     <<cx, cy>> \in (0..(w - 1)) \X (0..(h - 1))}

\* Image.new("RGB", (WIDTH * w, HEIGHT * h)): black everywhere, nothing pasted
ImageNew(w, h) ==
  [size |-> <<WIDTH * w, HEIGHT * h>>,
   cells |-> [b \in GridBoxes(w, h) |-> Blank],
   pastes |-> [b \in GridBoxes(w, h) |-> 0]]

\* lines 193-199: latest.json is fetched, or download() raises
ThreadFetchLatest ==
  /\ Running
  /\ tpc = "fetch"
  /\ \E ok \in BOOLEAN :
       /\ tpc' = IF ok THEN "mapper" ELSE "raised"
       /\ terr' = IF ok THEN "" ELSE "URLError"
  /\ UNCHANGED << engineVars, args, mpc, exit, clock, timedOut, png, workers, arrival,
                  counter, res, out, bg >>

\* lines 201-211: the Mapper, when a scale is given, then the empty composite
ThreadMakeMapper ==
  /\ Running
  /\ tpc = "mapper"
  /\ \E scale \in Scales, center \in PipeCenters :
       LET m == IF NeedsMapper(scale)
                THEN MapperInit(args.level, <<args.box[1], args.box[2]>>, scale, center)
                ELSE NoMapper
       IN  /\ ctor' = [given |-> TRUE, level |-> args.level,
                       offset |-> <<args.box[1], args.box[2]>>, scale |-> scale,
                       center |-> IF NeedsMapper(scale) THEN center ELSE <<>>]
           /\ mapper' = m
           /\ tpc' = IF m.state = "raised" THEN "raised" ELSE "pool"
           /\ terr' = m.error
           /\ png' = IF m.state = "raised" THEN png
                     ELSE ImageNew(BoxW(args.box), BoxH(args.box))
  /\ UNCHANGED << call, args, mpc, exit, clock, timedOut, workers, arrival, counter, res,
                  out, bg >>

\* the k-th task of it.product(range(x1, x2 + 1), range(y1, y2 + 1))
TaskX(k, box) == box[1] + (k - 1) \div BoxH(box)
TaskY(k, box) == box[2] + ((k - 1) % BoxH(box))

\* lines 213-223: the pool of w * h threads, one task each
PoolStart ==
  /\ Running
  /\ tpc = "pool"
  /\ BoxW(args.box) * BoxH(args.box) <= MaxTiles
  /\ workers' = [k \in 1..(BoxW(args.box) * BoxH(args.box)) |-> "run"]
  /\ tpc' = "map"
  /\ UNCHANGED << engineVars, args, mpc, exit, clock, timedOut, terr, png, arrival,
                  counter, res, out, bg >>

\* download_chunk, lines 56-81: the tile arrives and the counter is stepped
WorkerDone(k) ==
  /\ Running
  /\ tpc = "map"
  /\ workers[k] = "run"
  /\ workers' = [workers EXCEPT ![k] = "ok"]
  /\ counter' = counter + 1
  /\ arrival' = Append(arrival, k)
  /\ UNCHANGED << engineVars, args, mpc, exit, clock, timedOut, tpc, terr, png, res, out, bg >>

\* download() gives up after three tries and raises (line 169)
WorkerRaise(k) ==
  /\ Running
  /\ tpc = "map"
  /\ workers[k] = "run"
  /\ workers' = [workers EXCEPT ![k] = "raised"]
  /\ UNCHANGED << engineVars, args, mpc, exit, clock, timedOut, tpc, terr, png, arrival,
                  counter, res, out, bg >>

\* a "No Image" tile: sys.exit in the pool thread (line 73), whose task then
\* never completes
WorkerNoImage(k) ==
  /\ Running
  /\ tpc = "map"
  /\ workers[k] = "run"
  /\ workers' = [workers EXCEPT ![k] = "exited"]
  /\ UNCHANGED << engineVars, args, mpc, exit, clock, timedOut, tpc, terr, png, arrival,
                  counter, res, out, bg >>

\* what download_chunk returns for task k: x, y and the tile of (x, y)
TaskResult(k, box) ==
  [x |-> TaskX(k, box), y |-> TaskY(k, box), tiledata |-> <<TaskX(k, box), TaskY(k, box)>>]

\* p.map returns the results in the order of the tasks (line 215)
PoolMapReturn ==
  /\ Running
  /\ tpc = "map"
  /\ \A k \in DOMAIN workers : workers[k] = "ok"
  /\ res' = [k \in DOMAIN workers |-> TaskResult(k, args.box)]
  /\ tpc' = "paste"
  /\ UNCHANGED << engineVars, args, mpc, exit, clock, timedOut, terr, png, workers, arrival,
                  counter, out, bg >>

\* p.map re-raises a task's exception in thread_main
PoolMapRaise ==
  /\ Running
  /\ tpc = "map"
  /\ \E k \in DOMAIN workers : workers[k] = "raised"
  /\ tpc' = "raised"
  /\ terr' = "URLError"
  /\ UNCHANGED << engineVars, args, mpc, exit, clock, timedOut, png, workers, arrival,
                  counter, res, out, bg >>

\* the tile pasted without the offset of the box
PasteBoxMutNoOffset(t, x1, y1) ==
  <<WIDTH * t.x, HEIGHT * t.y, WIDTH * (t.x + 1), HEIGHT * (t.y + 1)>>

\* lines 228-233
PasteBox(t, x1, y1) ==
  <<WIDTH * (t.x - x1), HEIGHT * (t.y - y1), WIDTH * (t.x - x1 + 1), HEIGHT * (t.y - y1 + 1)>>

\* png.paste(tile, box): what falls outside the image is clipped
Paste(img, data, b) ==
  IF b \in DOMAIN img.cells
  THEN [img EXCEPT !.cells[b] = data, !.pastes[b] = @ + 1]
  ELSE img

RECURSIVE PasteAll(_, _, _, _)
PasteAll(img, results, k, box) ==
  IF k > Len(results) THEN img
  ELSE PasteAll(Paste(img, results[k].tiledata, PasteBox(results[k], box[1], box[2])),
                results, k + 1, box)

\* lines 226-236: every tile pasted, the old output files removed
ThreadAssemble ==
  /\ Running
  /\ tpc = "paste"
  /\ png' = PasteAll(png, res, 1, args.box)
  /\ tpc' = "render"
  /\ UNCHANGED << engineVars, args, mpc, exit, clock, timedOut, terr, workers, arrival,
                  counter, res, out, bg >>

\* lines 248-264: the width and height of the crop, in thousandths.  sw and sh
\* are --screen-width and --screen-height, r the screen ratio (sr[0], sr[1]),
\* w and h the tiles per axis.
CropDims(sw, sh, r, w, h) ==
  LET width == sw * Milli
      height == sh * Milli
  IN  IF height = 0 /\ width # 0
      THEN [width |-> width,
            height |-> IF r[1] # 0 THEN Quot(width * r[2], r[1]) ELSE height]
      ELSE IF height # 0 /\ width = 0
      THEN [width |-> width,
            height |-> IF r[1] # 0 THEN Quot(width * r[2], r[1]) ELSE height]
      ELSE IF height = 0 /\ width = 0 /\ r[1] # 0
      THEN IF w * r[2] > r[1] * h
           THEN [width |-> Quot(HEIGHT * h * r[1] * Milli, r[2]), height |-> height]
           ELSE IF w * r[2] < r[1] * h
           THEN [width |-> width, height |-> Quot(WIDTH * w * r[2] * Milli, r[1])]
           ELSE [width |-> width, height |-> height]
      ELSE [width |-> width, height |-> height]

\* line 267
UsesMapper(m, width, height) == m.state = "ok" /\ width # 0 /\ height # 0

\* png.crop((l, t, r, b)): an image of r - l by b - t
CropSize(l, t, r, b) == <<r - l, b - t>>

\* lines 272-284: the size the two crops leave, `size` being the composite's
Cropped(size, width, height, w, h) ==
  LET t1 == IntOf(Quot(HEIGHT * h * Milli - height, 2))
      s1 == IF height # 0
            THEN CropSize(0, t1, WIDTH * w, t1 + IntOf(height))
            ELSE size
      l2 == IntOf(Quot(WIDTH * w * Milli - width, 2))
  IN  IF width # 0 THEN CropSize(l2, 0, l2 + IntOf(width), HEIGHT * h) ELSE s1

\* lines 248-289: the map or the crop, then png.save
ThreadRender ==
  /\ Running
  /\ tpc = "render"
  /\ \E sw \in ScreenWidths, sh \in ScreenHeights :
       LET w == BoxW(args.box)
           h == BoxH(args.box)
           d == CropDims(sw, sh, args.screen_ratio, w, h)
       IN  /\ mapper' = IF UsesMapper(mapper, d.width, d.height)
                        THEN TransformSelf(mapper) ELSE mapper
           /\ out' = [saved |-> TRUE,
                       path |-> IF UsesMapper(mapper, d.width, d.height) THEN "map"
                                ELSE IF d.width # 0 \/ d.height # 0 THEN "crop"
                                ELSE "plain",
                       size |-> IF UsesMapper(mapper, d.width, d.height)
                                THEN Transform(mapper, png, d.width, d.height).size
                                ELSE Cropped(png.size, d.width, d.height, w, h),
                       width |-> d.width, height |-> d.height,
                       screen_width |-> sw, screen_height |-> sh, border |-> FALSE]
  /\ tpc' = "setbg"
  /\ UNCHANGED << ctor, call, args, mpc, exit, clock, timedOut, terr, png, workers, arrival,
                  counter, res, bg >>

\* lines 291-296: set_background, unless --dont-change; an unsupported desktop
\* is a sys.exit in the thread
ThreadSetBackground ==
  /\ Running
  /\ tpc = "setbg"
  /\ \E dont_change \in BOOLEAN, supported \in BOOLEAN :
       /\ bg' = ~dont_change
       /\ tpc' = IF ~dont_change /\ ~supported THEN "exited" ELSE "done"
  /\ UNCHANGED << engineVars, args, mpc, exit, clock, timedOut, terr, png, workers, arrival,
                  counter, res, out >>

Next ==
  \/ Main
  \/ Tick
  \/ JoinReturn
  \/ MainExit
  \/ ThreadFetchLatest
  \/ ThreadMakeMapper
  \/ PoolStart
  \/ \E k \in DOMAIN workers : WorkerDone(k)
  \/ \E k \in DOMAIN workers : WorkerRaise(k)
  \/ \E k \in DOMAIN workers : WorkerNoImage(k)
  \/ PoolMapReturn
  \/ PoolMapRaise
  \/ ThreadAssemble
  \/ ThreadRender
  \/ ThreadSetBackground

Spec == Init /\ [][Next]_vars

\* ------------------------------------------------------------------ claims
CenterFields(c) == [i \in 1..Len(Split(c)) |-> Strip(Split(c)[i])]
AllNumeric(c) == \A i \in 1..Len(CenterFields(c)) : IsFloat(CenterFields(c)[i])
ExactlyTwoNumeric(c) == Len(CenterFields(c)) = 2 /\ AllNumeric(c)

\* C1, as stated: whenever a center string that was given does not parse into
\* exactly two comma separated numeric fields, the construction of the Mapper
\* fails.
C1_FailsUnlessExactlyTwo ==
  (ctor.given /\ ctor.center # <<>> /\ ~ExactlyTwoNumeric(ctor.center))
    => mapper.state = "raised"

\* C1, amended: a non-empty center string with fewer than two fields or with a
\* field that is not a number makes the construction fail (ValueError or
\* IndexError), and no engine call is ever made on that Mapper; the empty
\* string selects the default center, and two or more numeric fields are
\* accepted, the first two being the center.
C1_FailsOnShortOrNonNumeric ==
  /\ (ctor.given /\ ctor.center # <<>>
        /\ (Len(CenterFields(ctor.center)) < 2 \/ ~AllNumeric(ctor.center)))
       => (mapper.state = "raised" /\ mapper.error \in {"ValueError", "IndexError"})
  /\ (ctor.given /\ ctor.center # <<>>
        /\ Len(CenterFields(ctor.center)) >= 2 /\ AllNumeric(ctor.center))
       => (/\ mapper.state = "ok"
           /\ mapper.ctr_lat = FloatVal(CenterFields(ctor.center)[1]) * DegUnit
           /\ mapper.ctr_long = FloatVal(CenterFields(ctor.center)[2]) * DegUnit)
  /\ (ctor.given /\ ctor.center = <<>> /\ mpc = "off")
       => (mapper.state = "ok" /\ mapper.ctr_lat = kor_lat - 3 * DegUnit)
  /\ mapper.state = "raised"
       => call.op \notin {"get_map_transforms", "transform", "round_trip"}

\* a single numeric field was given and the construction raised IndexError
C1_Witness ==
  /\ ctor.given
  /\ Len(CenterFields(ctor.center)) = 1
  /\ AllNumeric(ctor.center)
  /\ mapper.state = "raised"
  /\ mapper.error = "IndexError"

\* C2: a negative scale makes the construction fail: no Mapper with a negative
\* km_per_pixel exists and no image is mapped with one.
C2_NegativeScaleRejected ==
  /\ (ctor.given /\ ctor.scale < 0) => mapper.state = "raised"
  /\ mapper.state = "ok" => mapper.km_per_pixel >= 0
  /\ out.path = "map" => mapper.km_per_pixel >= 0

\* C3: once the construction of the Mapper has raised, no tile is downloaded,
\* no output file is written, the wallpaper setter is not called and the
\* process does not end with exit status 0.
C3_ConfigErrorIsFatal ==
  mapper.state = "raised"
    => (/\ counter = 0
        /\ workers = <<>>
        /\ ~out.saved
        /\ ~bg
        /\ exit # "0")

\* C4: with a scale of exactly zero no Mapper is constructed, nothing is mapped,
\* and the saved image comes from the cropping path alone, whatever the screen
\* width, height and ratio: the composite as it is, or crops of it.
C4_ZeroScaleSkipsEngine ==
  (ctor.given /\ mpc # "off" /\ ctor.scale = 0)
    => (/\ mapper = NoMapper
        /\ out.saved => out.path \in {"plain", "crop"}
        /\ (out.saved /\ out.width = 0 /\ out.height = 0)
             => out.size = <<WIDTH * BoxW(args.box), HEIGHT * BoxH(args.box)>>
        /\ (out.saved /\ out.width # 0)
             => out.size = <<IntOf(out.width), HEIGHT * BoxH(args.box)>>
        /\ (out.saved /\ out.width = 0 /\ out.height # 0)
             => out.size = <<WIDTH * BoxW(args.box), IntOf(out.height)>>)

\* a zero scale, both screen dimensions given, and the image was cropped
C4_Witness ==
  /\ ctor.given
  /\ mpc # "off"
  /\ ctor.scale = 0
  /\ out.saved
  /\ out.path = "crop"
  /\ out.screen_width # 0
  /\ out.screen_height # 0

\* C5: get_map_transforms(width, height) returns an x map and a y map of
\* height rows and width columns, one entry per destination pixel, and
\* transform gives an image of width by height pixels.
HasShape(a, rows, cols) ==
  /\ a.rows = rows
  /\ a.cols = cols
  /\ Len(a.at) = rows
  /\ \A i \in 1..rows : Len(a.at[i]) = cols

C5_ShapeMatchesRequest ==
  /\ call.op = "get_map_transforms"
       => (/\ HasShape(call.maps.x, call.height, call.width)
           /\ HasShape(call.maps.y, call.height, call.width))
  /\ call.op = "transform"
       => (/\ call.image.size = <<call.width, call.height>>
           /\ HasShape(call.image.map_to_x, call.height, call.width)
           /\ HasShape(call.image.map_to_y, call.height, call.width)
           /\ Cardinality(call.image.sampled) = call.width * call.height)

\* a transform of 3 by 2 pixels was computed
C5_Witness ==
  /\ call.op = "transform"
  /\ call.width = 3
  /\ call.height = 2
  /\ call.image.size = <<3, 2>>

\* the tolerance of the round trip at the precision of the model
RoundTripTol == Milli \div 100
Abs(n) == IF n < 0 THEN -n ELSE n

\* C6: for every batch of near-hemisphere unit vectors p,
\* earth_to_cartesian(cartesian_to_earth(p, lon), lon) returns p within the
\* tolerance.
C6_RoundTripIsIdentity ==
  call.op = "round_trip"
    => (/\ call.back.raised = ""
        /\ \A c \in 1..3 : \A k \in 1..call.n :
             /\ ~call.back.value[c].at[1][k].nan
             /\ Abs(call.back.value[c].at[1][k].v - call.p[c].at[1][k].v) <= RoundTripTol)

\* where earth_to_cartesian does return (one point, a numpy that builds the
\* object array), the point comes back within the tolerance
C6_SinglePointReturns ==
  (call.op = "round_trip" /\ call.back.raised = "")
    => (/\ call.n = 1
        /\ \A c \in 1..3 :
             Abs(call.back.value[c].at[1][1].v - call.p[c].at[1][1].v) <= RoundTripTol)

\* rho^2 of destination pixel (i, j), in thousandths
RhoSq(g, i, j) == SumOfSq(g).at[i][j].v

\* C7: every destination pixel with rho^2 > 4 is flagged as unmapped and its
\* coordinate is not handed to the resampler as a sample location.
C7_OutsideHemisphereFlagged ==
  call.op = "transform"
    => \A i \in 1..call.height : \A j \in 1..call.width :
         RhoSq(call.grid, i, j) > 4 * Milli
           => (/\ <<i, j>> \in call.image.unmapped
               /\ <<i, j>> \notin call.image.sampled)

\* what the code does there: the pixel's entries are NaN and are sampled
C7_OutsideHemisphereIsNaN ==
  call.op = "transform"
    => \A i \in 1..call.height : \A j \in 1..call.width :
         RhoSq(call.grid, i, j) > 4 * Milli
           => (/\ call.image.map_to_x.at[i][j].nan
               /\ call.image.map_to_y.at[i][j].nan
               /\ <<i, j>> \in call.image.sampled)

\* C8: whatever the order in which the downloads complete, every tile (x, y)
\* of the box is pasted once, at the rectangle of its grid cell, and the
\* composite is the same image.
C8_CompositeByGridCoordinate ==
  (tpc \in {"render", "setbg", "done", "exited"} /\ Running)
    => (/\ png.size = <<WIDTH * BoxW(args.box), HEIGHT * BoxH(args.box)>>
        /\ DOMAIN png.cells = GridBoxes(BoxW(args.box), BoxH(args.box))
        /\ \A cx \in 0..(BoxW(args.box) - 1) : \A cy \in 0..(BoxH(args.box) - 1) :
             LET b == <<WIDTH * cx, HEIGHT * cy, WIDTH * (cx + 1), HEIGHT * (cy + 1)>>
             IN  /\ png.cells[b] = <<args.box[1] + cx, args.box[2] + cy>>
                 /\ png.pastes[b] = 1)

\* the second tile of a box away from the origin arrived first, and the
\* composite is assembled
C8_Witness ==
  /\ tpc = "render"
  /\ Running
  /\ arrival = <<2, 1>>
  /\ args.box[1] = 1

ValidBox(box, level) ==
  /\ 0 <= box[1] /\ box[1] <= box[3] /\ box[3] < level
  /\ 0 <= box[2] /\ box[2] <= box[4] /\ box[4] < level

\* --tiles was given, all its fields are integers, and they are no valid box
GivenInvalidBox ==
  LET toks == NonEmpty(args.tiles)
      ints == [i \in 1..Len(toks) |-> IntOfTok(toks[i])]
  IN  /\ args.tiles # <<>>
      /\ \A i \in 1..Len(toks) : IsInt(toks[i])
      /\ Len(ints) < 4 \/ ~ValidBox(ints, args.level)

\* C9: the pipeline starts only with 0 <= x1 <= x2 < level and
\* 0 <= y1 <= y2 < level, level being clamped to 8 for infrared; the composite
\* is 550 * (x2 - x1 + 1) by 550 * (y2 - y1 + 1), at most 550 * level per axis;
\* any other box ends main with "Wrong box coordinates!".
C9_BoxAndCompositeSize ==
  /\ tpc # "idle"
       => (/\ ValidBox(args.box, args.level)
           /\ args.level \in Levels
           /\ args.img_type = "ir" => args.level <= 8)
  /\ png.size # <<0, 0>>
       => (/\ png.size = <<550 * (args.box[3] - args.box[1] + 1),
                           550 * (args.box[4] - args.box[2] + 1)>>
           /\ png.size[1] <= 550 * args.level
           /\ png.size[2] <= 550 * args.level)
  /\ (mpc = "exit" /\ tpc = "idle" /\ args.deadline >= 0 /\ GivenInvalidBox)
       => exit = "Wrong box coordinates!"
  /\ exit = "Wrong box coordinates!" => (tpc = "idle" /\ GivenInvalidBox)

\* an infrared run at the clamped level 8 holds the composite of the full disk
C9_Witness ==
  /\ tpc = "pool"
  /\ args.img_type = "ir"
  /\ args.level = 8
  /\ png.size = <<550 * 8, 550 * 8>>

\* C10, as stated: if the thread has not finished when the deadline expires,
\* the process ends with "Timeout!" and never with exit status 0 (here for the
\* runs whose thread goes on to complete the pipeline).
C10_TimeoutNeverSuccess == (timedOut /\ tpc = "done") => exit # "0"

\* C10, amended: the process ends with "Timeout!" exactly when a deadline is set
\* and the thread is still alive at the liveness test that follows join, which
\* returns on its timeout only once deadline * 60 seconds have passed; it ends
\* with status 0 whenever the thread has ended by then, also when it ended
\* after the timeout; with a deadline of 0 join waits for the thread.
C10_TimeoutIffAliveAtCheck ==
  /\ exit = "Timeout!"
       => (args.deadline > 0 /\ ThreadAlive /\ timedOut /\ clock >= 60 * args.deadline)
  /\ exit = "0" => ~ThreadAlive
  /\ (mpc = "exit" /\ tpc # "idle" /\ ThreadAlive) => exit = "Timeout!"
  /\ timedOut => (args.deadline > 0 /\ clock >= 60 * args.deadline)
  /\ (mpc \in {"check", "exit"} /\ tpc # "idle" /\ args.deadline = 0) => ~ThreadAlive

\* join returned on its timeout while the pool was downloading, the thread was
\* still alive at the liveness test, and the process ended with "Timeout!"
C10_Witness ==
  /\ args.deadline > 0
  /\ timedOut
  /\ tpc = "map"
  /\ exit = "Timeout!"

C12_ScreenDimensionAlone ==
  (out.saved /\ out.path # "map")
    => (/\ (out.screen_height # 0 /\ out.screen_width = 0)
              => out.size[2] = out.screen_height
        /\ (out.screen_width # 0 /\ out.screen_height = 0)
              => out.size[1] = out.screen_width)

\* what holds of the code: the width alone, and the height alone when no
\* screen ratio is given; a height with a ratio leaves the composite as it is
C12_WhatTheCropDoes ==
  (out.saved /\ out.path # "map")
    => (/\ (out.screen_width # 0 /\ out.screen_height = 0)
              => out.size[1] = out.screen_width
        /\ (out.screen_height # 0 /\ out.screen_width = 0 /\ args.screen_ratio[1] = 0)
              => out.size[2] = out.screen_height
        /\ (out.screen_height # 0 /\ out.screen_width = 0 /\ args.screen_ratio[1] # 0)
              => (/\ out.path = "plain"
                  /\ out.size = <<WIDTH * BoxW(args.box), HEIGHT * BoxH(args.box)>>))

====
